---------------------------- MODULE Spec2Model ----------------------------
(***************************************************************************)
(* The CHIP-8 machine of src/src/machine.rs (struct Chip8) driven by the   *)
(* host of src/src/main.rs and src/src/emulator.rs.                        *)
(*                                                                         *)
(* A panic of the Rust code is modelled as the machine entering a failed   *)
(* state: the variable panic records which panic site was hit, the fields  *)
(* keep what had been written before the panic, and no operation is        *)
(* enabled afterwards.  The panic sites are named after the condition of   *)
(* the specification they stand for:                                       *)
(*   UnknownOpcode     Chip8::opcode_not_found (carries the opcode)        *)
(*   StackOverflow     stack[stack_pointer] out of bounds in 2nnn          *)
(*   StackUnderflow    stack_pointer -= 1 at 0 / stack[255] in 00EE        *)
(*   ImageTooLarge     memory[ROM_MEMORY_START + i] out of bounds in load  *)
(*   MemoryOutOfRange  any other memory index or slice out of bounds       *)
(*   KeyOutOfRange     keypad[Vx] out of bounds in Ex9E / ExA1             *)
(*   FontCopyLength    copy_from_slice length mismatch in Chip8::new       *)
(***************************************************************************)
EXTENDS Integers, Sequences, FiniteSets, TLC

\* ------------------------------------------------------------ constants
VIDEO_WIDTH == 64
VIDEO_HEIGHT == 32
VIDEO_BUFFER_SIZE == VIDEO_WIDTH * VIDEO_HEIGHT
ROM_MEMORY_START == 512
NUM_KEYS == 16
MEMORY_SIZE == 4096
NUM_REGISTERS == 16
STACK_SIZE == 16

\* crate::fonts is not among the source files: the table is the 16 glyphs
\* of 5 bytes each that the specification describes, at offset 0x50.
FONT_MEMORY_START == 80
FONTS ==
    << 240, 144, 144, 144, 240,   32,  96,  32,  32, 112,
       240,  16, 240, 128, 240,  240,  16, 240,  16, 240,
       144, 144, 240,  16,  16,  240, 128, 240,  16, 240,
       240, 128, 240, 144, 240,  240,  16,  32,  64,  64,
       240, 144, 240, 144, 240,  240, 144, 240,  16, 240,
       240, 144, 240, 144, 144,  224, 144, 224, 144, 224,
       240, 128, 128, 128, 240,  224, 144, 144, 144, 224,
       240, 128, 240, 128, 240,  240, 128, 240, 128, 128 >>

\* ------------------------------------------------------------ bounds
\* The host presses and releases the keys HostKey(1) .. HostKey(NumHostKeys).
NumHostKeys == 2
\* Program images of up to ROM capacity + OverLen bytes are offered to load.
OverLen == 2
\* The nested-call program nests up to STACK_SIZE + OverNest calls.
OverNest == 1

\* ------------------------------------------------------------ integers
U8(n) == n % 256
U16(n) == n % 65536

RECURSIVE BitAnd(_, _)
BitAnd(a, b) ==
    IF a = 0 \/ b = 0 THEN 0
    ELSE (IF a % 2 = 1 /\ b % 2 = 1 THEN 1 ELSE 0) + 2 * BitAnd(a \div 2, b \div 2)

RECURSIVE BitOr(_, _)
BitOr(a, b) ==
    IF a = 0 THEN b
    ELSE IF b = 0 THEN a
    ELSE (IF a % 2 = 1 \/ b % 2 = 1 THEN 1 ELSE 0) + 2 * BitOr(a \div 2, b \div 2)

RECURSIVE BitXor(_, _)
BitXor(a, b) ==
    IF a = 0 THEN b
    ELSE IF b = 0 THEN a
    ELSE (IF a % 2 # b % 2 THEN 1 ELSE 0) + 2 * BitXor(a \div 2, b \div 2)

\* ------------------------------------------------------------ failures
NoPanic == [kind |-> "None", value |-> 0]
Panic(k, v) == [kind |-> k, value |-> v]

\* ------------------------------------------------------------ state
VARIABLES
    registers,        \* [u8; 16]
    memory,           \* [u8; 4096]
    program_counter,  \* u16
    index,            \* u16
    stack,            \* [u16; 16]
    stack_pointer,    \* u8
    delay_timer,      \* u8
    sound_timer,      \* u8
    keypad,           \* [bool; 16]
    video,            \* [bool; 2048]
    redraw,           \* bool
    panic,            \* NoPanic while the machine lives, else the panic hit
    loaded,           \* host: Emulator::load has been called (main.rs)
    last,             \* history: the operation that led to this state
    call_sites,       \* history: the 2nnn calls not yet returned from, each with
                      \*          its address and the stack pointer it found
    call_depth        \* history: 2nnn executed minus 00EE executed

machine_vars == << registers, memory, program_counter, index, stack, stack_pointer,
                   delay_timer, sound_timer, keypad, video, redraw, panic >>
vars == << registers, memory, program_counter, index, stack, stack_pointer,
           delay_timer, sound_timer, keypad, video, redraw, panic,
           loaded, last, call_sites, call_depth >>

\* The machine as one value, for the operators that model &mut self methods.
Chip8 ==
    [ registers |-> registers, memory |-> memory,
      program_counter |-> program_counter, index |-> index,
      stack |-> stack, stack_pointer |-> stack_pointer,
      delay_timer |-> delay_timer, sound_timer |-> sound_timer,
      keypad |-> keypad, video |-> video, redraw |-> redraw, panic |-> panic ]

Install(m) ==
    /\ registers' = m.registers
    /\ memory' = m.memory
    /\ program_counter' = m.program_counter
    /\ index' = m.index
    /\ stack' = m.stack
    /\ stack_pointer' = m.stack_pointer
    /\ delay_timer' = m.delay_timer
    /\ sound_timer' = m.sound_timer
    /\ keypad' = m.keypad
    /\ video' = m.video
    /\ redraw' = m.redraw
    /\ panic' = m.panic

\* ------------------------------------------------------------ Chip8::new
\* The struct literal of Chip8::new.
NewLiteral ==
    [ registers |-> [i \in 0 .. NUM_REGISTERS - 1 |-> 0],
      memory |-> [a \in 0 .. MEMORY_SIZE - 1 |-> 0],
      program_counter |-> ROM_MEMORY_START,
      index |-> 0,
      stack |-> [i \in 0 .. STACK_SIZE - 1 |-> 0],
      stack_pointer |-> 0,
      delay_timer |-> 0,
      sound_timer |-> 0,
      keypad |-> [k \in 0 .. NUM_KEYS - 1 |-> FALSE],
      video |-> [c \in 0 .. VIDEO_BUFFER_SIZE - 1 |-> FALSE],
      redraw |-> TRUE,
      panic |-> NoPanic ]

\* dst[first ..= last].copy_from_slice(src): panics unless the two slices
\* have the same length (and the range lies inside dst).
CopyFromSliceInclusive(dst, first, lastIdx, src) ==
    IF lastIdx >= MEMORY_SIZE THEN [ok |-> FALSE, mem |-> dst]
    ELSE IF lastIdx - first + 1 # Len(src) THEN [ok |-> FALSE, mem |-> dst]
    ELSE [ok |-> TRUE,
          mem |-> [a \in 0 .. MEMORY_SIZE - 1 |->
                     IF a >= first /\ a <= lastIdx THEN src[a - first + 1] ELSE dst[a]]]

\* Chip8::new as written: the destination range FONT_MEMORY_START ..=
\* FONT_MEMORY_START + FONTS.len() is one byte longer than FONTS.
New ==
    LET c == NewLiteral
        r == CopyFromSliceInclusive(c.memory, FONT_MEMORY_START,
                                    FONT_MEMORY_START + Len(FONTS), FONTS)
    IN  IF r.ok THEN [c EXCEPT !.memory = r.mem]
        ELSE [c EXCEPT !.panic = Panic("FontCopyLength", Len(FONTS) + 1)]

\* The machine Chip8::new is written to return: the struct literal with the
\* font table at FONT_MEMORY_START.  The operations are exercised from it.
Constructed ==
    [ NewLiteral EXCEPT !.memory =
        [a \in 0 .. MEMORY_SIZE - 1 |->
           IF a >= FONT_MEMORY_START /\ a < FONT_MEMORY_START + Len(FONTS)
           THEN FONTS[a - FONT_MEMORY_START + 1] ELSE 0] ]


\* ------------------------------------------------------------ Chip8::load
\* Mutant of load: the destination index wraps around the end of memory.
load_Wrapping(m, buffer) ==
    [m EXCEPT !.memory =
        [a \in 0 .. MEMORY_SIZE - 1 |->
           LET i == (a + MEMORY_SIZE - ROM_MEMORY_START) % MEMORY_SIZE
           IN  IF i < Len(buffer) THEN buffer[i + 1] ELSE m.memory[a]]]

\* The copy loop of load over buffer, the bytes read from the file (opening
\* and reading the file are the host's part and are not modelled): byte i
\* goes to memory[ROM_MEMORY_START + i]; the first index past the array
\* panics, after the bytes before it have been written.
load(m, buffer) ==
    LET room == MEMORY_SIZE - ROM_MEMORY_START
        written == IF Len(buffer) <= room THEN Len(buffer) ELSE room
        mem == [a \in 0 .. MEMORY_SIZE - 1 |->
                  IF a >= ROM_MEMORY_START /\ a < ROM_MEMORY_START + written
                  THEN buffer[a - ROM_MEMORY_START + 1] ELSE m.memory[a]]
    IN  IF Len(buffer) <= room
        THEN [m EXCEPT !.memory = mem]
        ELSE [m EXCEPT !.memory = mem, !.panic = Panic("ImageTooLarge", Len(buffer))]

\* ------------------------------------------------- Chip8::decrement_timers
\* Mutant of decrement_timers: the timers are decremented without the test
\* for zero and wrap to 255.
decrement_timers_Wrapping(m) ==
    [m EXCEPT !.delay_timer = U8(m.delay_timer + 255),
              !.sound_timer = U8(m.sound_timer + 255)]

decrement_timers(m) ==
    LET m1 == IF m.delay_timer > 0
              THEN [m EXCEPT !.delay_timer = m.delay_timer - 1] ELSE m
    IN  IF m1.sound_timer > 0
        THEN [m1 EXCEPT !.sound_timer = m1.sound_timer - 1] ELSE m1

\* ------------------------------------------------------ Chip8::mem_read_u16
\* Both bytes are read before program_counter moves: a read past the array
\* panics with program_counter unchanged.
FetchPanics(m) == m.program_counter + 1 >= MEMORY_SIZE

\* Mutant of Opcode: the byte at program_counter is taken as the low byte.
Opcode_LowByteFirst(m) ==
    m.memory[m.program_counter + 1] * 256 + m.memory[m.program_counter]

Opcode(m) ==
    m.memory[m.program_counter] * 256 + m.memory[m.program_counter + 1]

mem_read_u16(m) ==
    IF FetchPanics(m)
    THEN [m EXCEPT !.panic = Panic("MemoryOutOfRange",
              IF m.program_counter >= MEMORY_SIZE
              THEN m.program_counter ELSE m.program_counter + 1)]
    ELSE [m EXCEPT !.program_counter = m.program_counter + 2]

\* ------------------------------------------------------ Chip8::check_keypad
\* Mutant of check_keypad: the scan keeps the last pressed key it sees.
check_keypad_Highest(m) ==
    LET pressed == {i \in 0 .. NUM_KEYS - 1 : m.keypad[i]}
    IN  IF pressed = {} THEN -1
        ELSE CHOOSE i \in pressed : \A j \in pressed : i >= j

\* Some(i) for the first i in 0 .. NUM_KEYS - 1 with keypad[i], else None (-1).
check_keypad(m) ==
    LET pressed == {i \in 0 .. NUM_KEYS - 1 : m.keypad[i]}
    IN  IF pressed = {} THEN -1
        ELSE CHOOSE i \in pressed : \A j \in pressed : i <= j

\* --------------------------------------------------- Chip8::opcode_not_found
opcode_not_found(m, opcode) == [m EXCEPT !.panic = Panic("UnknownOpcode", opcode)]

\* ------------------------------------------------------------ decoding
OpFirst(opcode) == opcode \div 4096
OpX(opcode) == (opcode \div 256) % 16
OpY(opcode) == (opcode \div 16) % 16
OpN(opcode) == opcode % 16
OpKK(opcode) == opcode % 256
OpNNN(opcode) == opcode % 4096

SetReg(m, r, v) == [m EXCEPT !.registers[r] = v]

\* ------------------------------------------------------------ Chip8::execute
\* 0x0 family: only the low nibble of the opcode is matched.
\*   identifier 0x0: the framebuffer is cleared (redraw is not written).
\*   identifier 0xE: stack_pointer -= 1, then program_counter = stack[..].
\*     With stack_pointer = 0 the subtraction panics in a build with
\*     overflow checks (checks = TRUE); without them it wraps to 255 and the
\*     stack index panics.
ClearVideo(m) ==
    [m EXCEPT !.video = [c \in 0 .. VIDEO_BUFFER_SIZE - 1 |-> FALSE]]

Return(m, checks) ==
    IF m.stack_pointer = 0 /\ checks
    THEN [m EXCEPT !.panic = Panic("StackUnderflow", 0)]
    ELSE LET sp == U8(m.stack_pointer + 255)
             m1 == [m EXCEPT !.stack_pointer = sp]
         IN  IF sp >= STACK_SIZE
             THEN [m1 EXCEPT !.panic = Panic("StackUnderflow", sp)]
             ELSE [m1 EXCEPT !.program_counter = m1.stack[sp]]

Exec0(m, opcode, checks) ==
    LET identifier == opcode % 16
    IN  CASE identifier = 0 -> ClearVideo(m)
          [] identifier = 14 -> Return(m, checks)
          [] OTHER -> opcode_not_found(m, opcode)

\* Mutant of Call: the address of the call itself is pushed.
Call_PushesCallSite(m, opcode) ==
    IF m.stack_pointer >= STACK_SIZE
    THEN [m EXCEPT !.panic = Panic("StackOverflow", m.stack_pointer)]
    ELSE [m EXCEPT !.stack[m.stack_pointer] = m.program_counter - 2,
                   !.stack_pointer = m.stack_pointer + 1,
                   !.program_counter = OpNNN(opcode)]

\* 2nnn: the write to stack[stack_pointer] panics when stack_pointer = 16.
Call(m, opcode) ==
    IF m.stack_pointer >= STACK_SIZE
    THEN [m EXCEPT !.panic = Panic("StackOverflow", m.stack_pointer)]
    ELSE [m EXCEPT !.stack[m.stack_pointer] = m.program_counter,
                   !.stack_pointer = m.stack_pointer + 1,
                   !.program_counter = OpNNN(opcode)]

Skip(m, cond) ==
    IF cond THEN [m EXCEPT !.program_counter = m.program_counter + 2] ELSE m

\* 8xy4: overflowing_add, VF written first, then Vx.
AddXY(m, x, y) ==
    LET sum == m.registers[x] + m.registers[y]
        carry == sum > 255
        m1 == SetReg(m, 15, IF carry THEN 1 ELSE 0)
    IN  SetReg(m1, x, U8(sum))

\* Mutant of SubInto: equal operands count as a borrow.
SubInto_BorrowOnEqual(m, x, a, b) ==
    LET diff == U8(a + 256 - b)
        borrow == a <= b
        m1 == SetReg(m, 15, IF borrow THEN 0 ELSE 1)
    IN  SetReg(m1, x, diff)

\* 8xy5 (a = Vx, b = Vy) and 8xy7 (a = Vy, b = Vx): overflowing_sub of a - b,
\* VF written first, then Vx.
SubInto(m, x, a, b) ==
    LET diff == U8(a + 256 - b)
        borrow == a < b
        m1 == SetReg(m, 15, IF borrow THEN 0 ELSE 1)
    IN  SetReg(m1, x, diff)

\* Mutant of ShiftRight: Vy is shifted into Vx.
ShiftRight_FromVy(m, x, y) ==
    LET m1 == SetReg(m, 15, m.registers[y] % 2)
    IN  SetReg(m1, x, m1.registers[y] \div 2)

\* 8xy6 / 8xyE: VF written first, then Vx shifted in place.
ShiftRight(m, x, y) ==
    LET m1 == SetReg(m, 15, m.registers[x] % 2)
    IN  SetReg(m1, x, m1.registers[x] \div 2)

ShiftLeft(m, x) ==
    LET m1 == SetReg(m, 15, (m.registers[x] \div 128) % 2)
    IN  SetReg(m1, x, U8(m1.registers[x] * 2))

Exec8(m, opcode) ==
    LET x == OpX(opcode)
        y == OpY(opcode)
        identifier == opcode % 16
    IN  CASE identifier = 0 -> SetReg(m, x, m.registers[y])
          [] identifier = 1 -> SetReg(m, x, BitOr(m.registers[x], m.registers[y]))
          [] identifier = 2 -> SetReg(m, x, BitAnd(m.registers[x], m.registers[y]))
          [] identifier = 3 -> SetReg(m, x, BitXor(m.registers[x], m.registers[y]))
          [] identifier = 4 -> AddXY(m, x, y)
          [] identifier = 5 -> SubInto(m, x, m.registers[x], m.registers[y])
          [] identifier = 6 -> ShiftRight(m, x, y)
          [] identifier = 7 -> SubInto(m, x, m.registers[y], m.registers[x])
          [] identifier = 14 -> ShiftLeft(m, x)
          [] OTHER -> opcode_not_found(m, opcode)

\* Dxyn.  The plotted cell of sprite row i, bit j, as the code computes it:
\* both coordinates are reduced modulo VIDEO_HEIGHT.
PixelY(y, i) == (y + i) % VIDEO_HEIGHT
PixelX(x, j) == (x + j) % VIDEO_HEIGHT

\* (row_of_sprite & (0x80 >> j)) != 0
SpriteBit(row_of_sprite, j) == (row_of_sprite \div (2 ^ (7 - j))) % 2 = 1

\* Mutant of DrawBits: a set sprite bit turns its cell on instead of
\* toggling it.
RECURSIVE DrawBits_TurnsOn(_, _, _, _, _, _)
DrawBits_TurnsOn(st, row_of_sprite, x, y, i, j) ==
    IF j >= 8 THEN st
    ELSE LET cell == PixelY(y, i) * VIDEO_WIDTH + PixelX(x, j)
             st1 == IF SpriteBit(row_of_sprite, j)
                    THEN [video |-> [st.video EXCEPT ![cell] = TRUE],
                          redraw |-> TRUE,
                          collision |-> st.collision \/ st.video[cell]]
                    ELSE st
         IN  DrawBits_TurnsOn(st1, row_of_sprite, x, y, i, j + 1)

\* Mutant of DrawBits: the collision is taken from the cell after the XOR.
RECURSIVE DrawBits_CollisionAfterXor(_, _, _, _, _, _)
DrawBits_CollisionAfterXor(st, row_of_sprite, x, y, i, j) ==
    IF j >= 8 THEN st
    ELSE LET cell == PixelY(y, i) * VIDEO_WIDTH + PixelX(x, j)
             st1 == IF SpriteBit(row_of_sprite, j)
                    THEN [video |-> [st.video EXCEPT ![cell] = ~st.video[cell]],
                          redraw |-> TRUE,
                          collision |-> st.collision \/ ~st.video[cell]]
                    ELSE st
         IN  DrawBits_CollisionAfterXor(st1, row_of_sprite, x, y, i, j + 1)

\* The inner loop over j in 0..8; st carries video, redraw and collision.
RECURSIVE DrawBits(_, _, _, _, _, _)
DrawBits(st, row_of_sprite, x, y, i, j) ==
    IF j >= 8 THEN st
    ELSE LET cell == PixelY(y, i) * VIDEO_WIDTH + PixelX(x, j)
             st1 == IF SpriteBit(row_of_sprite, j)
                    THEN [video |-> [st.video EXCEPT ![cell] = ~st.video[cell]],
                          redraw |-> TRUE,
                          collision |-> st.collision \/ st.video[cell]]
                    ELSE st
         IN  DrawBits(st1, row_of_sprite, x, y, i, j + 1)

\* The outer loop over i in 0..n; reading memory[index + i] past the array
\* panics with the rows before it already plotted.
RECURSIVE DrawRows(_, _, _, _, _, _)
DrawRows(m, st, x, y, n, i) ==
    IF i >= n THEN [st |-> st, ok |-> TRUE, at |-> 0]
    ELSE IF m.index + i >= MEMORY_SIZE THEN [st |-> st, ok |-> FALSE, at |-> m.index + i]
    ELSE DrawRows(m, DrawBits(st, m.memory[m.index + i], x, y, i, 0), x, y, n, i + 1)

\* Mutant of Draw: the redraw flag is left as it was.
Draw_KeepsRedraw(m, opcode) ==
    LET x == m.registers[OpX(opcode)]
        y == m.registers[OpY(opcode)]
        n == OpN(opcode)
        r == DrawRows(m, [video |-> m.video, redraw |-> m.redraw, collision |-> FALSE],
                      x, y, n, 0)
        m1 == [m EXCEPT !.video = r.st.video]
    IN  IF r.ok
        THEN SetReg(m1, 15, IF r.st.collision THEN 1 ELSE 0)
        ELSE [m1 EXCEPT !.panic = Panic("MemoryOutOfRange", r.at)]

Draw(m, opcode) ==
    LET x == m.registers[OpX(opcode)]
        y == m.registers[OpY(opcode)]
        n == OpN(opcode)
        r == DrawRows(m, [video |-> m.video, redraw |-> m.redraw, collision |-> FALSE],
                      x, y, n, 0)
        m1 == [m EXCEPT !.video = r.st.video, !.redraw = r.st.redraw]
    IN  IF r.ok
        THEN SetReg(m1, 15, IF r.st.collision THEN 1 ELSE 0)
        ELSE [m1 EXCEPT !.panic = Panic("MemoryOutOfRange", r.at)]

\* Ex9E / ExA1: keypad[Vx] panics for Vx >= NUM_KEYS.
ExecE(m, opcode) ==
    LET x == OpX(opcode)
        identifier == opcode % 256
        key == m.registers[x]
    IN  CASE identifier = 158 ->
               IF key >= NUM_KEYS THEN [m EXCEPT !.panic = Panic("KeyOutOfRange", key)]
               ELSE Skip(m, m.keypad[key])
          [] identifier = 161 ->
               IF key >= NUM_KEYS THEN [m EXCEPT !.panic = Panic("KeyOutOfRange", key)]
               ELSE Skip(m, ~m.keypad[key])
          [] OTHER -> opcode_not_found(m, opcode)

\* Mutant of WaitKey: the instruction is rewound whatever the scan finds.
WaitKey_AlwaysRewinds(m, x) ==
    [m EXCEPT !.program_counter = m.program_counter - 2]

\* Fx0A: Some(key) writes Vx; None rewinds program_counter by 2.
WaitKey(m, x) ==
    LET key == check_keypad(m)
    IN  IF key >= 0 THEN SetReg(m, x, key)
        ELSE [m EXCEPT !.program_counter = m.program_counter - 2]

\* Mutant of StoreBcd: the digits are stored in the order they are produced,
\* ones first.
StoreBcd_OnesFirst(m, x) ==
    LET value == m.registers[x]
    IN  IF m.index + 2 >= MEMORY_SIZE
        THEN [m EXCEPT !.panic = Panic("MemoryOutOfRange", m.index + 2)]
        ELSE [m EXCEPT !.memory[m.index] = value % 10,
                       !.memory[m.index + 1] = (value \div 10) % 10,
                       !.memory[m.index + 2] = ((value \div 10) \div 10) % 10]

\* Fx33: the ones digit is written first, at index + 2.
StoreBcd(m, x) ==
    LET value == m.registers[x]
    IN  IF m.index + 2 >= MEMORY_SIZE
        THEN [m EXCEPT !.panic = Panic("MemoryOutOfRange", m.index + 2)]
        ELSE [m EXCEPT !.memory[m.index + 2] = value % 10,
                       !.memory[m.index + 1] = (value \div 10) % 10,
                       !.memory[m.index] = ((value \div 10) \div 10) % 10]

\* Mutant of StoreRegs: the destination addresses wrap around the end of
\* memory.
StoreRegs_Wrapping(m, x) ==
    [m EXCEPT !.memory =
        [a \in 0 .. MEMORY_SIZE - 1 |->
           LET r == (a + MEMORY_SIZE - (m.index % MEMORY_SIZE)) % MEMORY_SIZE
           IN  IF r <= x THEN m.registers[r] ELSE m.memory[a]]]

\* Fx55 / Fx65: the slice memory[index ..= index + x] panics when it ends
\* past the array, before anything is copied.
StoreRegs(m, x) ==
    IF m.index + x >= MEMORY_SIZE
    THEN [m EXCEPT !.panic = Panic("MemoryOutOfRange", m.index + x)]
    ELSE [m EXCEPT !.memory =
            [a \in 0 .. MEMORY_SIZE - 1 |->
               IF a >= m.index /\ a <= m.index + x
               THEN m.registers[a - m.index] ELSE m.memory[a]]]

\* Mutant of LoadRegs: the ranges are 0 .. x, without Vx.
LoadRegs_Exclusive(m, x) ==
    IF m.index + x >= MEMORY_SIZE
    THEN [m EXCEPT !.panic = Panic("MemoryOutOfRange", m.index + x)]
    ELSE [m EXCEPT !.registers =
            [r \in 0 .. NUM_REGISTERS - 1 |->
               IF r < x THEN m.memory[m.index + r] ELSE m.registers[r]]]

LoadRegs(m, x) ==
    IF m.index + x >= MEMORY_SIZE
    THEN [m EXCEPT !.panic = Panic("MemoryOutOfRange", m.index + x)]
    ELSE [m EXCEPT !.registers =
            [r \in 0 .. NUM_REGISTERS - 1 |->
               IF r <= x THEN m.memory[m.index + r] ELSE m.registers[r]]]

ExecF(m, opcode) ==
    LET x == OpX(opcode)
        identifier == opcode % 256
    IN  CASE identifier = 7 -> SetReg(m, x, m.delay_timer)
          [] identifier = 10 -> WaitKey(m, x)
          [] identifier = 21 -> [m EXCEPT !.delay_timer = m.registers[x]]
          [] identifier = 24 -> [m EXCEPT !.sound_timer = m.registers[x]]
          [] identifier = 30 -> [m EXCEPT !.index = U16(m.index + m.registers[x])]
          [] identifier = 41 -> [m EXCEPT !.index = FONT_MEMORY_START + 5 * m.registers[x]]
          [] identifier = 51 -> StoreBcd(m, x)
          [] identifier = 85 -> StoreRegs(m, x)
          [] identifier = 101 -> LoadRegs(m, x)
          [] OTHER -> opcode_not_found(m, opcode)

\* The dispatch on the first nibble.  ran_byte is the byte thread_rng()
\* yields for Cxkk; checks says whether the build panics on integer overflow.
execute(m, opcode, ran_byte, checks) ==
    LET first == OpFirst(opcode)
        x == OpX(opcode)
        y == OpY(opcode)
        kk == OpKK(opcode)
    IN  CASE first = 0 -> Exec0(m, opcode, checks)
          [] first = 1 -> [m EXCEPT !.program_counter = OpNNN(opcode)]
          [] first = 2 -> Call(m, opcode)
          [] first = 3 -> Skip(m, m.registers[x] = kk)
          [] first = 4 -> Skip(m, m.registers[x] # kk)
          [] first = 5 -> Skip(m, m.registers[x] = m.registers[y])
          [] first = 6 -> SetReg(m, x, kk)
          [] first = 7 -> SetReg(m, x, U8(m.registers[x] + kk))
          [] first = 8 -> Exec8(m, opcode)
          [] first = 9 -> Skip(m, m.registers[x] # m.registers[y])
          [] first = 10 -> [m EXCEPT !.index = OpNNN(opcode)]
          [] first = 11 -> [m EXCEPT !.program_counter = OpNNN(opcode) + m.registers[0]]
          [] first = 12 -> SetReg(m, x, BitAnd(ran_byte, kk))
          [] first = 13 -> Draw(m, opcode)
          [] first = 14 -> ExecE(m, opcode)
          [] OTHER -> ExecF(m, opcode)

\* ------------------------------------------------------------ Chip8::cycle
\* Mutant of cycle: the timers are decremented at the end of every cycle.
cycle_DecrementsTimers(m, ran_byte, checks) ==
    IF FetchPanics(m) THEN mem_read_u16(m)
    ELSE decrement_timers(execute(mem_read_u16(m), Opcode(m), ran_byte, checks))

cycle(m, ran_byte, checks) ==
    IF FetchPanics(m) THEN mem_read_u16(m)
    ELSE execute(mem_read_u16(m), Opcode(m), ran_byte, checks)

\* ------------------------------------------------------------ inputs
\* Program images are byte sequences; Word(w) is the big-endian pair of
\* bytes of the 16-bit word w.
Word(w) == << w \div 256, w % 256 >>

RECURSIVE Assemble(_)
Assemble(ops) == IF ops = << >> THEN << >> ELSE Word(Head(ops)) \o Assemble(Tail(ops))

\* The address of the k-th word (from 0) of a loaded image.
AddrOf(k) == ROM_MEMORY_START + 2 * k
JumpTo(addr) == 4096 + addr
CallTo(addr) == 8192 + addr

\* One instruction followed by jumps to themselves at the two addresses it
\* can fall through or skip to.
SingleOp(op) == Assemble(<< op, JumpTo(AddrOf(1)), JumpTo(AddrOf(2)) >>)

\* Opcodes outside the instruction table of the specification.
UndocumentedPool ==
    { 0, 16, 225, 254, 480, 750,        \* 0000 0010 00E1 00FE 01E0 02EE
      20481, 20527, 36865, 36926,       \* 5001 502F 9001 903E
      32776, 32799, 33065,              \* 8008 801F 8129
      57344, 57759, 57762,              \* E000 E19F E1A2
      61440, 61951, 62219 }             \* F000 F1FF F30B

\* Opcodes of the instruction table that run on their own.
DocumentedPool ==
    { 224, 238,                         \* 00E0 00EE
      4612, 8708,                       \* 1204 2204
      4611, 8707,                       \* 1203 2203
      8190, 8191,                       \* 1FFE 1FFF
      12288, 12289, 16384, 16385,       \* 3000 3001 4000 4001
      20496, 36880,                     \* 5010 9010
      27221, 31233,                     \* 6A55 7A01
      41251, 45572,                     \* A123 B204
      49407,                            \* C0FF
      53264, 53251,                     \* D010 D003
      57502, 57505,                     \* E09E E0A1
      61447, 62218, 61461, 61464,       \* F007 F30A F015 F018
      61470, 61481, 61491, 61525, 61541 }  \* F01E F029 F033 F055 F065

OpcodePool == UndocumentedPool \cup DocumentedPool

\* n nested subroutines: word 0 calls subroutine 1, word 1 loops; subroutine
\* k (words 2k, 2k + 1) calls subroutine k + 1 and returns; subroutine n
\* only returns.
NestWord(n, w) ==
    IF w = 0 THEN CallTo(AddrOf(2))
    ELSE IF w = 1 THEN JumpTo(AddrOf(1))
    ELSE IF w % 2 = 0 /\ w \div 2 < n THEN CallTo(AddrOf(w + 2))
    ELSE 238

Nest(n) == Assemble([w \in 1 .. 2 * n + 2 |-> NestWord(n, w - 1)])

\* Cx FF; Cy FF; 8xy<id>; loop.
AluPairs == { <<0, 1>>, <<3, 3>>, <<2, 15>>, <<15, 2>>, <<15, 15>> }
AluIds == { 4, 5, 7 }
Alu(id, x, y) ==
    Assemble(<< 49152 + 256 * x + 255, 49152 + 256 * y + 255,
                32768 + 256 * x + 16 * y + id, JumpTo(AddrOf(3)) >>)

\* I = sprite; V0 = vx; V1 = vy; D01n; loop; then the sprite rows.
SpriteRows == << 255, 129, 60 >>
DrawXs == { 0, 28, 60, 63, 64, 255 }
DrawYs == { 0, 31, 32 }
DrawNs == { 1, 3 }
DrawProgram(vx, vy, n) ==
    Assemble(<< 40960 + AddrOf(5), 24576 + vx, 24832 + vy, 53264 + n,
                JumpTo(AddrOf(4)) >>) \o SpriteRows

\* I = sprite; D011 at (0, 0); 00E0; loop; then the sprite rows.
DrawThenClear ==
    Assemble(<< 40960 + AddrOf(4), 53265, 224, JumpTo(AddrOf(3)) >>) \o SpriteRows

\* I = sprite; V0 = vx; V1 = vy; D013 on a blank area; D013 again, erasing
\* it; D013 with VF = 1 left by the erasure; V0 += 4; D013 overlapping the
\* last one by half; loop; then the sprite rows.
OverlapAnchors == { <<0, 0>>, <<28, 31>>, <<60, 30>> }
OverlapProgram(vx, vy) ==
    Assemble(<< 40960 + AddrOf(9), 24576 + vx, 24832 + vy, 53267, 53267, 53267,
                28676, 53267, JumpTo(AddrOf(8)) >>) \o SpriteRows

\* A call to word 2, which holds 00FE, an opcode outside the instruction
\* table whose low nibble is that of 00EE.
StrayReturn == Assemble(<< CallTo(AddrOf(2)), JumpTo(AddrOf(1)), 254 >>)

\* V0 = 2; delay = V0; V1 = 1; sound = V1; loop.
TimerProgram ==
    Assemble(<< 24578, 61461, 24833, 61720, JumpTo(AddrOf(4)) >>)

\* I = 0x50; BCD of V0 at I; V0 = 255; V0 stored at I; loop.
FontOverwrite ==
    Assemble(<< 40960 + FONT_MEMORY_START, 61491, 24831, 61525, JumpTo(AddrOf(4)) >>)

\* V0 = 1; B206 (to 0x207); loop; then 12 12 07 00, whose bytes at 0x207 and
\* 0x208 read as 1207, a jump to itself.
OddBranch ==
    Assemble(<< 24577, 45574, JumpTo(AddrOf(2)), 4626, 1792 >>)

\* I = nnn; one instruction that reads or writes memory at I; loop.
EdgeIndexes == { 4093, 4094, 4095 }
EdgeOps == { 53251, 61491, 61781, 61797 }     \* D003 F033 F155 F165
EdgeProgram(nnn, op) == Assemble(<< 40960 + nnn, op, JumpTo(AddrOf(2)) >>)

\* I = 0xFFF; V0 = 255; I += V0; V0 stored at I; loop.
FarIndex ==
    Assemble(<< 45055, 24831, 61470, 61525, JumpTo(AddrOf(4)) >>)

\* V0 = 255; BFFF (to 0xFFF + 255).
FarBranch == Assemble(<< 24831, 49151 >>)

\* V0 = 0x11; V1 = 0x22; V2 = 0x33; I = 0x300; F155; V0 = V1 = V2 = 0x44;
\* F165; loop.
StoreLoad ==
    Assemble(<< 24593, 24866, 25139, 41728, 61781, 24644, 24900, 25156, 61797,
                JumpTo(AddrOf(9)) >>)

\* VE = 0x0E; VF = 0x0F; I = 0x300; FF55; VE = VF = 0; FF65; loop.
StoreLoadAll ==
    Assemble(<< 28174, 28431, 41728, 65365, 28160, 28416, 65381,
                JumpTo(AddrOf(7)) >>)

\* An image of len bytes: a jump to itself, then bytes that depend on their
\* position and are never zero.
Sized(len) ==
    [i \in 1 .. len |-> IF i = 1 THEN 18 ELSE IF i = 2 THEN 0 ELSE ((i * 7) % 255) + 1]

RomRoom == MEMORY_SIZE - ROM_MEMORY_START
SizedLens == { 1, 2, 3, RomRoom - 1 } \cup (RomRoom .. RomRoom + OverLen)

Images ==
    { SingleOp(op) : op \in OpcodePool }
    \cup { Nest(n) : n \in { 1, STACK_SIZE } \cup (STACK_SIZE + 1 .. STACK_SIZE + OverNest) }
    \cup { Alu(id, p[1], p[2]) : id \in AluIds, p \in AluPairs }
    \cup { DrawProgram(vx, vy, n) : vx \in DrawXs, vy \in DrawYs, n \in DrawNs }
    \cup { DrawThenClear, StrayReturn, TimerProgram, FontOverwrite, OddBranch }
    \cup { EdgeProgram(nnn, op) : nnn \in EdgeIndexes, op \in EdgeOps }
    \cup { FarIndex, FarBranch, StoreLoad, StoreLoadAll }
    \cup { OverlapProgram(a[1], a[2]) : a \in OverlapAnchors }
    \cup { Sized(len) : len \in SizedLens }

\* The bytes thread_rng() may yield (samples of 0 .. 255), and the two build
\* profiles; only Cxkk reads the byte and only the 0x0 family the profile.
RanBytes == { 0, 1, 128, 255 }
RanChoices(m) ==
    IF ~FetchPanics(m) /\ OpFirst(Opcode(m)) = 12 THEN RanBytes ELSE { 0 }
ChecksChoices(m) ==
    IF ~FetchPanics(m) /\ OpFirst(Opcode(m)) = 0 THEN BOOLEAN ELSE { TRUE }

\* The keys the host presses: 3, 15, 11, 7, ...
HostKey(i) == (3 + 12 * (i - 1)) % NUM_KEYS
HostKeys == { HostKey(i) : i \in 1 .. NumHostKeys }

\* ------------------------------------------------------------ actions
NoImage == << >>
LastOp(op, opcode, at, image) ==
    [op |-> op, opcode |-> opcode, at |-> at, image |-> image]

Holds(m) ==
    /\ registers = m.registers
    /\ memory = m.memory
    /\ program_counter = m.program_counter
    /\ index = m.index
    /\ stack = m.stack
    /\ stack_pointer = m.stack_pointer
    /\ delay_timer = m.delay_timer
    /\ sound_timer = m.sound_timer
    /\ keypad = m.keypad
    /\ video = m.video
    /\ redraw = m.redraw
    /\ panic = m.panic

Init ==
    /\ Holds(Constructed)
    /\ loaded = FALSE
    /\ last = LastOp("none", 0, 0, NoImage)
    /\ call_sites = << >>
    /\ call_depth = 0

Alive == panic = NoPanic

\* main: Chip8::new() is evaluated before anything is loaded.
NewMachine ==
    /\ Alive /\ ~loaded
    /\ Install(New)
    /\ last' = LastOp("new", 0, 0, NoImage)
    /\ call_sites' = << >>
    /\ call_depth' = 0
    /\ UNCHANGED loaded

\* main: Emulator::load, once, before the event loop starts.
Load ==
    /\ Alive /\ ~loaded
    /\ \E image \in Images :
          /\ Install(load(Chip8, image))
          /\ last' = LastOp("load", 0, 0, image)
    /\ loaded' = TRUE
    /\ UNCHANGED << call_sites, call_depth >>

\* Emulator::update: one fetch-and-execute of the machine (Chip8::cycle).
\* Each step draws the random byte and the build profile it may depend on;
\* the profile only matters at the step that ends the run.
Step ==
    /\ Alive /\ loaded
    /\ \E ran_byte \in RanChoices(Chip8), checks \in ChecksChoices(Chip8) :
          LET m == cycle(Chip8, ran_byte, checks)
              opcode == IF FetchPanics(Chip8) THEN -1 ELSE Opcode(Chip8)
              done == m.panic = NoPanic
              called == done /\ opcode >= 0 /\ OpFirst(opcode) = 2
              returned == done /\ opcode >= 0 /\ OpFirst(opcode) = 0 /\ opcode % 16 = 14
          IN  /\ Install(m)
              /\ last' = LastOp("step", opcode, program_counter, NoImage)
              /\ call_sites' = IF called
                               THEN Append(call_sites, [at |-> program_counter,
                                                        sp |-> stack_pointer])
                               ELSE IF returned /\ call_sites # << >>
                               THEN SubSeq(call_sites, 1, Len(call_sites) - 1)
                               ELSE call_sites
              /\ call_depth' = IF called THEN call_depth + 1
                               ELSE IF done /\ opcode = 238 THEN call_depth - 1
                               ELSE call_depth
    /\ UNCHANGED loaded

\* Emulator::update: decrement_timers after the cycles of a tick.
TickTimers ==
    /\ Alive /\ loaded
    /\ Install(decrement_timers(Chip8))
    /\ last' = LastOp("tick", 0, 0, NoImage)
    /\ UNCHANGED << loaded, call_sites, call_depth >>

\* Emulator::key_down_event / key_up_event for the key mapped to control k.
set_key(m, k, pressed) == [m EXCEPT !.keypad[k] = pressed]

KeyDown ==
    /\ Alive /\ loaded
    /\ \E k \in HostKeys :
          /\ Install(set_key(Chip8, k, TRUE))
          /\ last' = LastOp("key_down", 0, k, NoImage)
    /\ UNCHANGED << loaded, call_sites, call_depth >>

KeyUp ==
    /\ Alive /\ loaded
    /\ \E k \in HostKeys :
          /\ Install(set_key(Chip8, k, FALSE))
          /\ last' = LastOp("key_up", 0, k, NoImage)
    /\ UNCHANGED << loaded, call_sites, call_depth >>

Next == NewMachine \/ Load \/ Step \/ TickTimers \/ KeyDown \/ KeyUp

Spec == Init /\ [][Next]_vars

\* The same machine and host after a host that repaints has consumed the
\* redraw flag, as the interface of the specification asks of hosts.
InitConsumed ==
    /\ \E consumed \in BOOLEAN : Holds([Constructed EXCEPT !.redraw = ~consumed])
    /\ loaded = FALSE
    /\ last = LastOp("none", 0, 0, NoImage)
    /\ call_sites = << >>
    /\ call_depth = 0

SpecConsumed == InitConsumed /\ [][Next]_vars

\* ------------------------------------------------- runs over every byte
\* Programs that put every 8-bit value through one instruction.
\*   Vx = v; I = 0x300; Fx33; loop.
Bytes == 0 .. 255
BcdRegisters == { 0, 7, 15 }
BcdProgram(x, v) ==
    Assemble(<< 24576 + 256 * x + v, 41728, 61491 + 256 * x, JumpTo(AddrOf(3)) >>)

\*   Vx = v; Vy = 255 - v; 8xy6 or 8xyE; loop: every byte through V0 with
\*   y = 1, and the bytes around the two ends and the middle through the
\*   pairs where x = y, x = F or y = F.
ShiftIds == { 6, 14 }
ShiftPairs == { <<3, 3>>, <<2, 15>>, <<15, 2>>, <<15, 15>> }
ShiftEdges == { 0, 1, 2, 127, 128, 129, 254, 255 }
ShiftProgram(id, x, y, v) ==
    Assemble(<< 24576 + 256 * x + v, 24576 + 256 * y + (255 - v),
                32768 + 256 * x + 16 * y + id, JumpTo(AddrOf(3)) >>)

\*   V4 = v; F429; loop: the digits 0, 9 and F and bytes above F.
GlyphValues == { 0, 9, 15, 16, 31, 255 }
GlyphProgram(v) == Assemble(<< 25600 + v, 62505, JumpTo(AddrOf(2)) >>)

ByteImages ==
    { BcdProgram(x, v) : x \in BcdRegisters, v \in Bytes }
    \cup { GlyphProgram(v) : v \in GlyphValues }
    \cup { ShiftProgram(id, 0, 1, v) : id \in ShiftIds, v \in Bytes }
    \cup { ShiftProgram(id, p[1], p[2], v) :
              id \in ShiftIds, p \in ShiftPairs, v \in ShiftEdges }

\* main up to the event loop, with one of the byte programs loaded; the
\* machine then only steps: no key event arrives and no timer tick is due.
InitSteps ==
    /\ \E image \in ByteImages :
          /\ Holds(load(Constructed, image))
          /\ last = LastOp("load", 0, 0, image)
    /\ loaded = TRUE
    /\ call_sites = << >>
    /\ call_depth = 0

SpecSteps == InitSteps /\ [][Step]_vars

\* ------------------------------------------------- runs of the draws
\* The programs that draw, loaded into a machine whose redraw flag a host
\* that repaints may have consumed; the machine then only steps.
DrawImages ==
    { DrawProgram(vx, vy, n) : vx \in DrawXs, vy \in DrawYs, n \in DrawNs }
    \cup { OverlapProgram(a[1], a[2]) : a \in OverlapAnchors }
    \cup { EdgeProgram(nnn, 53251) : nnn \in EdgeIndexes }
    \cup { DrawThenClear, SingleOp(53264), SingleOp(53251) }

InitDraws ==
    /\ \E image \in DrawImages, consumed \in BOOLEAN :
          /\ Holds([load(Constructed, image) EXCEPT !.redraw = ~consumed])
          /\ last = LastOp("load", 0, 0, image)
    /\ loaded = TRUE
    /\ call_sites = << >>
    /\ call_depth = 0

SpecDraws == InitDraws /\ [][Step]_vars

\* ------------------------------------------------- runs of the key wait
\* Programs that wait for a key: Fx0A; loop back to it (x = 0, 3, F), and
\* F30A; F40A; loop back to the first.
WaitRegisters == { 0, 3, 15 }
WaitProgram(x) == Assemble(<< 61450 + 256 * x, JumpTo(AddrOf(0)) >>)
WaitTwice == Assemble(<< 62218, 62474, JumpTo(AddrOf(0)) >>)
WaitImages == { WaitProgram(x) : x \in WaitRegisters } \cup { WaitTwice }

InitWait ==
    /\ \E image \in WaitImages :
          /\ Holds(load(Constructed, image))
          /\ last = LastOp("load", 0, 0, image)
    /\ loaded = TRUE
    /\ call_sites = << >>
    /\ call_depth = 0

\* The event loop on a waiting program.  Emulator::update runs at every
\* update tick of the loop, so the machine keeps being stepped.
NextWait == Step \/ TickTimers \/ KeyDown \/ KeyUp

SpecWait == InitWait /\ [][NextWait]_vars /\ WF_vars(Step)

\* ------------------------------------------------- the host's draw
\* Mutant of HostDraw: the host clears the flag once it has repainted.
HostDraw_ConsumesRedraw ==
    /\ Alive /\ loaded
    /\ last' = LastOp("draw", 0, IF redraw THEN 1 ELSE 0, NoImage)
    /\ redraw' = FALSE
    /\ UNCHANGED << registers, memory, program_counter, index, stack, stack_pointer,
                    delay_timer, sound_timer, keypad, video, panic,
                    loaded, call_sites, call_depth >>

\* Emulator::draw: update_buffer runs when the machine's redraw flag is set
\* (recorded as at = 1, else 0); the flag is read and never written.
HostDraw ==
    /\ Alive /\ loaded
    /\ last' = LastOp("draw", 0, IF redraw THEN 1 ELSE 0, NoImage)
    /\ UNCHANGED << machine_vars, loaded, call_sites, call_depth >>

NextHost == Next \/ HostDraw

SpecHost == Init /\ [][NextHost]_vars

\* ======================================================================
\* Claims
\* ======================================================================

\* The instruction table of the specification: 00E0, 00EE, 1nnn, 2nnn, 3xkk,
\* 4xkk, 5xy0, 6xkk, 7xkk, 8xy0..8xy7, 8xyE, 9xy0, Annn, Bnnn, Cxkk, Dxyn,
\* Ex9E, ExA1, Fx07, Fx0A, Fx15, Fx18, Fx1E, Fx29, Fx33, Fx55, Fx65.
IsDocumented(opcode) ==
    LET first == OpFirst(opcode)
    IN  CASE first = 0 -> opcode \in { 224, 238 }
          [] first \in { 5, 9 } -> opcode % 16 = 0
          [] first = 8 -> opcode % 16 \in (0 .. 7) \cup { 14 }
          [] first = 14 -> opcode % 256 \in { 158, 161 }
          [] first = 15 -> opcode % 256 \in { 7, 10, 21, 24, 30, 41, 51, 85, 101 }
          [] OTHER -> TRUE

Stepped == last.op = "step" /\ last.opcode >= 0

\* C1: a step on an opcode outside the instruction table ends in the
\* UnknownOpcode failure carrying that opcode; it is never executed as some
\* other instruction.
C1_UnknownOpcodeFails ==
    (Stepped /\ ~IsDocumented(last.opcode))
        => panic = Panic("UnknownOpcode", last.opcode)

\* The opcode the next step fetches (-1 when the fetch panics).
AtOpcode == IF FetchPanics(Chip8) THEN -1 ELSE Opcode(Chip8)

\* C2: 2nnn with the stack pointer at 16 ends in the StackOverflow failure
\* and 00EE with the stack pointer at 0 in the StackUnderflow failure; in
\* both the stack pointer and the stack keep their values and the program
\* counter is the one the fetch left.
C2_StackFaultsLeaveState ==
    [][ Step =>
          /\ (OpFirst(AtOpcode) = 2 /\ stack_pointer = STACK_SIZE) =>
                /\ panic'.kind = "StackOverflow"
                /\ stack_pointer' = stack_pointer
                /\ stack' = stack
                /\ program_counter' = program_counter + 2
          /\ (AtOpcode = 238 /\ stack_pointer = 0) =>
                /\ panic'.kind = "StackUnderflow"
                /\ stack_pointer' = stack_pointer
                /\ stack' = stack
                /\ program_counter' = program_counter + 2 ]_vars

\* C3: while the machine lives the stack pointer is within 0 .. 16 and equals
\* the number of 2nnn executed minus the number of 00EE executed.
C3_StackPointerCountsCalls ==
    Alive => /\ stack_pointer \in 0 .. STACK_SIZE
             /\ stack_pointer = call_depth

\* C4: a 00EE that succeeds returns to the address just past the latest
\* 2nnn not yet returned from and restores the stack pointer that call
\* found; a 2nnn that succeeds jumps to nnn one level deeper.
C4_CallReturnRoundTrip ==
    [][ Step =>
          /\ (AtOpcode = 238 /\ panic' = NoPanic) =>
                /\ call_sites # << >>
                /\ program_counter' = call_sites[Len(call_sites)].at + 2
                /\ stack_pointer' = call_sites[Len(call_sites)].sp
          /\ (OpFirst(AtOpcode) = 2 /\ panic' = NoPanic) =>
                /\ program_counter' = OpNNN(AtOpcode)
                /\ stack_pointer' = stack_pointer + 1
                /\ stack_pointer' <= STACK_SIZE ]_vars

\* A 00EE has returned from a call made at depth 16 into the subroutine
\* that made it, with 15 calls still open.
C4_Witness ==
    /\ Stepped /\ last.opcode = 238 /\ Alive
    /\ stack_pointer = STACK_SIZE - 1
    /\ Len(call_sites) = STACK_SIZE - 1
    /\ program_counter = AddrOf(2 * (STACK_SIZE - 1)) + 2

\* C5: load of an image of at most 4096 - 0x200 bytes succeeds with byte i
\* at memory[0x200 + i] and memory below 0x200 as constructed; a longer
\* image ends in the ImageTooLarge failure, memory below 0x200 untouched.
C5_LoadFitsOrFails ==
    last.op = "load" =>
        /\ \A a \in 0 .. ROM_MEMORY_START - 1 : memory[a] = Constructed.memory[a]
        /\ Len(last.image) <= MEMORY_SIZE - ROM_MEMORY_START =>
              /\ Alive
              /\ \A i \in 0 .. Len(last.image) - 1 :
                    memory[ROM_MEMORY_START + i] = last.image[i + 1]
        /\ Len(last.image) > MEMORY_SIZE - ROM_MEMORY_START =>
              panic = Panic("ImageTooLarge", Len(last.image))

\* An image of exactly 4096 - 0x200 bytes has been loaded and fills memory
\* up to its last byte.
C5_Witness ==
    /\ last.op = "load" /\ Alive
    /\ Len(last.image) = MEMORY_SIZE - ROM_MEMORY_START
    /\ memory[MEMORY_SIZE - 1] = last.image[Len(last.image)]
    /\ memory[MEMORY_SIZE - 1] # 0

\* C6: construction succeeds and yields PC = 0x200, stack pointer 0,
\* registers, I, timers, stack, keys and framebuffer zero, redraw set, and
\* memory zero except the 80 font bytes at 0x50 .. 0x9F.
C6_ConstructionSucceeds ==
    last.op = "new" =>
        /\ Alive
        /\ program_counter = 512 /\ stack_pointer = 0 /\ index = 0
        /\ delay_timer = 0 /\ sound_timer = 0 /\ redraw = TRUE
        /\ \A r \in 0 .. 15 : registers[r] = 0 /\ stack[r] = 0 /\ keypad[r] = FALSE
        /\ \A c \in 0 .. 64 * 32 - 1 : video[c] = FALSE
        /\ \A a \in 0 .. 4095 :
              memory[a] = IF a >= 80 /\ a <= 159 THEN FONTS[a - 79] ELSE 0

\* The 8-bit result and the flag of 8xy4 / 8xy5 / 8xy7 on operands vx, vy.
AluResult(id, vx, vy) ==
    CASE id = 4 -> (vx + vy) % 256
      [] id = 5 -> (vx + 256 - vy) % 256
      [] OTHER -> (vy + 256 - vx) % 256
AluFlag(id, vx, vy) ==
    CASE id = 4 -> IF vx + vy > 255 THEN 1 ELSE 0
      [] id = 5 -> IF vx >= vy THEN 1 ELSE 0
      [] OTHER -> IF vy >= vx THEN 1 ELSE 0
IsAluOp(opcode) == opcode >= 0 /\ OpFirst(opcode) = 8 /\ opcode % 16 \in { 4, 5, 7 }

ToroidalDraw(vx, vy, n) ==
    [c \in 0 .. VIDEO_BUFFER_SIZE - 1 |->
       IF \E i \in 0 .. n - 1, j \in 0 .. 7 :
             /\ SpriteBit(memory[index + i], j)
             /\ c = ((vy + i) % 32) * 64 + ((vx + j) % 64)
       THEN ~video[c] ELSE video[c]]

\* C8: a Dxyn that completes toggles exactly the cells
\* ((Vy + i) mod 32) * 64 + ((Vx + j) mod 64) of the set sprite bits.
C8_DrawIsToroidal ==
    [][ (Step /\ OpFirst(AtOpcode) = 13 /\ panic' = NoPanic) =>
          video' = ToroidalDraw(registers[OpX(AtOpcode)], registers[OpY(AtOpcode)],
                                OpN(AtOpcode)) ]_vars

IsWaitKey(opcode) == opcode >= 0 /\ OpFirst(opcode) = 15 /\ opcode % 256 = 10

\* C10: a step on Fx0A with no key pressed changes nothing in the machine;
\* with a key pressed it writes the lowest-numbered pressed key into Vx,
\* leaves the program counter two bytes past the instruction and changes
\* nothing else.
C10_WaitKeyBusyWait ==
    [][ (Step /\ IsWaitKey(AtOpcode)) =>
          IF \A k \in 0 .. NUM_KEYS - 1 : ~keypad[k]
          THEN UNCHANGED machine_vars
          ELSE LET low == CHOOSE k \in 0 .. NUM_KEYS - 1 :
                            keypad[k] /\ \A j \in 0 .. k - 1 : ~keypad[j]
               IN  /\ registers' = [registers EXCEPT ![OpX(AtOpcode)] = low]
                   /\ program_counter' = program_counter + 2
                   /\ UNCHANGED << memory, index, stack, stack_pointer, delay_timer,
                                   sound_timer, keypad, video, redraw, panic >> ]_vars

\* F30A has resolved with keys 3 and 15 both pressed: V3 = 3 and the program
\* counter is past the instruction.
C10_Witness ==
    /\ Stepped /\ last.opcode = 62218 /\ Alive
    /\ keypad[3] /\ keypad[15]
    /\ registers[3] = 3
    /\ program_counter = last.at + 2

\* C11: a timer tick takes 1 off each timer that is not 0 and leaves a timer
\* that is 0 at 0, each timer on its own, and changes nothing else in the
\* machine.
C11_TickSaturates ==
    [][ TickTimers =>
          /\ delay_timer' = IF delay_timer > 0 THEN delay_timer - 1 ELSE 0
          /\ sound_timer' = IF sound_timer > 0 THEN sound_timer - 1 ELSE 0
          /\ UNCHANGED << registers, memory, program_counter, index, stack,
                          stack_pointer, keypad, video, redraw, panic >> ]_vars

\* The timer program has set delay = 2 and sound = 1 and one tick has run
\* since: delay is 1 and sound has reached 0.
C11_Witness ==
    /\ last.op = "tick" /\ Alive
    /\ registers[0] = 2 /\ registers[1] = 1
    /\ program_counter = AddrOf(4)
    /\ delay_timer = 1 /\ sound_timer = 0

\* C12: in every state reached from the constructed machine by load and
\* steps, the 80 bytes at 0x50 .. 0x9F are the font table.
C12_FontRegionIntact ==
    last.op # "new" =>
        \A a \in 0 .. Len(FONTS) - 1 : memory[FONT_MEMORY_START + a] = FONTS[a + 1]

\* C13: in every state reached by steps on a loaded program the program
\* counter is even.
C13_ProgramCounterEven == program_counter % 2 = 0

\* The step about to run would touch memory at an offset of 4096 or more:
\* the fetch at PC and PC + 1, the n sprite rows of Dxyn from I, the three
\* bytes of Fx33 from I, the x + 1 bytes of Fx55 / Fx65 from I.
TouchesPastMemory ==
    \/ program_counter + 1 >= 4096
    \/ /\ program_counter + 1 < 4096
       /\ LET opcode == memory[program_counter] * 256 + memory[program_counter + 1]
              x == (opcode \div 256) % 16
              n == opcode % 16
          IN  \/ opcode \div 4096 = 13 /\ n > 0 /\ index + n - 1 >= 4096
              \/ opcode \div 4096 = 15 /\ opcode % 256 = 51 /\ index + 2 >= 4096
              \/ opcode \div 4096 = 15 /\ opcode % 256 \in { 85, 101 }
                    /\ index + x >= 4096

\* C14: a step that would touch memory at an offset of 4096 or more ends in
\* the MemoryOutOfRange failure and nothing is stored in memory or in the
\* registers instead (no wrapped or clamped access).
C14_OutOfRangeAccessFails ==
    [][ (Step /\ TouchesPastMemory) =>
          /\ panic'.kind = "MemoryOutOfRange"
          /\ memory' = memory
          /\ registers' = registers ]_vars

\* F155 with I = 0xFFF has failed: V1 would have gone to offset 4096.
C14_Witness ==
    /\ Stepped /\ last.opcode = 61781
    /\ index = 4095
    /\ panic = Panic("MemoryOutOfRange", 4096)
    /\ memory[0] = 0

IsStoreBcd(opcode) == opcode >= 0 /\ OpFirst(opcode) = 15 /\ opcode % 256 = 51

\* C15: an Fx33 that completes stores the hundreds, tens and ones digits of
\* Vx at I, I + 1 and I + 2 and leaves I, the registers and every other
\* byte of memory as they were.
C15_BcdDigits ==
    [][ (Step /\ IsStoreBcd(AtOpcode) /\ panic' = NoPanic) =>
          LET v == registers[OpX(AtOpcode)]
          IN  /\ memory' = [a \in 0 .. MEMORY_SIZE - 1 |->
                              IF a = index THEN v \div 100
                              ELSE IF a = index + 1 THEN (v \div 10) % 10
                              ELSE IF a = index + 2 THEN v % 10
                              ELSE memory[a]]
              /\ index' = index
              /\ registers' = registers ]_vars

\* F733 has run with V7 = 255 and I = 0x300: the bytes there are 2, 5, 5.
C15_Witness ==
    /\ Stepped /\ last.opcode = 63283 /\ Alive
    /\ registers[7] = 255 /\ index = 768
    /\ memory[768] = 2 /\ memory[769] = 5 /\ memory[770] = 5

\* The instructions of the table that may leave the program counter
\* anywhere but two bytes on: jumps, call, return, skips and Fx0A.
MovesProgramCounter(opcode) ==
    \/ opcode \div 4096 \in { 1, 2, 3, 4, 5, 9, 11, 14 }
    \/ opcode = 238
    \/ opcode \div 4096 = 15 /\ opcode % 256 = 10

\* C16: the opcode is memory[PC] * 256 + memory[PC + 1] and PC is advanced
\* by 2 before dispatch: an instruction of the table that completes and is
\* no jump, call, return, skip or Fx0A leaves PC two bytes on; 1nnn and a
\* 2nnn that completes leave PC = nnn and Bnnn leaves PC = nnn + V0.
C16_FetchAdvancesThenDispatch ==
    [][ (Step /\ program_counter + 1 < 4096) =>
          LET opcode == memory[program_counter] * 256 + memory[program_counter + 1]
              nnn == opcode % 4096
          IN  /\ opcode \div 4096 = 1 =>
                    program_counter' = nnn /\ panic' = NoPanic
              /\ (opcode \div 4096 = 2 /\ stack_pointer < STACK_SIZE) =>
                    program_counter' = nnn /\ panic' = NoPanic
              /\ opcode \div 4096 = 11 =>
                    program_counter' = nnn + registers[0] /\ panic' = NoPanic
              /\ (IsDocumented(opcode) /\ ~MovesProgramCounter(opcode)
                    /\ panic' = NoPanic) =>
                    program_counter' = program_counter + 2 ]_vars

\* B206 has run with V0 = 1: the program counter is 0x207.
C16_Witness ==
    /\ Stepped /\ last.opcode = 45574 /\ Alive
    /\ registers[0] = 1
    /\ program_counter = 519

IsShiftOp(opcode) == opcode >= 0 /\ OpFirst(opcode) = 8 /\ opcode % 16 \in { 6, 14 }

\* The value and the flag of a shift of the byte v: 8xy6 halves it and
\* flags bit 0, 8xyE doubles it modulo 256 and flags bit 7.
ShiftResult(id, v) == IF id = 6 THEN v \div 2 ELSE (v * 2) % 256
ShiftFlag(id, v) == IF id = 6 THEN v % 2 ELSE v \div 128

\* C17 as claimed: for every x, F included, 8xy6 / 8xyE leave the shifted
\* value of the old Vx in Vx and the bit shifted out in VF, and Vy (a
\* register other than Vx and VF) as it was.
C17_ShiftResultAndFlag ==
    [][ (Step /\ IsShiftOp(AtOpcode)) =>
          LET x == OpX(AtOpcode)
              y == OpY(AtOpcode)
              id == AtOpcode % 16
          IN  /\ registers'[x] = ShiftResult(id, registers[x])
              /\ registers'[15] = ShiftFlag(id, registers[x])
              /\ y \notin { x, 15 } => registers'[y] = registers[y] ]_vars

\* C17 amended: for x other than F, Vx holds the shifted value of the old Vx
\* and VF the bit shifted out; for x = F the flag written to VF is itself
\* shifted, leaving VF = 0 after 8Fy6 and twice bit 7 of the old VF after
\* 8FyE; no register other than Vx and VF changes, whatever Vy holds.
C17_ShiftResultAndFlagUnlessXF ==
    [][ (Step /\ IsShiftOp(AtOpcode)) =>
          LET x == OpX(AtOpcode)
              id == AtOpcode % 16
          IN  /\ x # 15 => /\ registers'[x] = ShiftResult(id, registers[x])
                           /\ registers'[15] = ShiftFlag(id, registers[x])
              /\ x = 15 => registers'[15] =
                              ShiftResult(id, ShiftFlag(id, registers[15]))
              /\ \A r \in 0 .. NUM_REGISTERS - 1 :
                    r \notin { x, 15 } => registers'[r] = registers[r]
              /\ panic' = NoPanic ]_vars

\* 8016 has shifted V0 = 255 with V1 = 0: V0 is 127, VF is 1, V1 still 0.
C17_Witness ==
    /\ Stepped /\ last.opcode = 32790 /\ Alive
    /\ registers[0] = 127 /\ registers[15] = 1 /\ registers[1] = 0

\* The number of set bits of a byte, and of the n sprite rows from I.
RECURSIVE Ones(_)
Ones(b) == IF b = 0 THEN 0 ELSE (b % 2) + Ones(b \div 2)

RECURSIVE SpriteOnes(_)
SpriteOnes(n) == IF n = 0 THEN 0 ELSE Ones(memory[index + n - 1]) + SpriteOnes(n - 1)

\* C18: after a Dxyn that completes, VF is 1 if some cell that was on has
\* been turned off and 0 otherwise, whatever VF was; as many cells have
\* changed as the sprite has set bits (each set bit toggles a cell of its
\* own once, a bit that is 0 changes nothing).
C18_CollisionFlag ==
    [][ (Step /\ OpFirst(AtOpcode) = 13 /\ panic' = NoPanic) =>
          /\ registers'[15] =
                IF \E c \in 0 .. VIDEO_BUFFER_SIZE - 1 : video[c] /\ ~video'[c]
                THEN 1 ELSE 0
          /\ Cardinality({ c \in 0 .. VIDEO_BUFFER_SIZE - 1 : video'[c] # video[c] })
                = SpriteOnes(OpN(AtOpcode))
          /\ \A r \in 0 .. NUM_REGISTERS - 2 : registers'[r] = registers[r] ]_vars

\* The fourth D013 of the overlap program at (0, 0): the row 0xFF drawn at
\* column 4 over the one at column 0 has turned columns 4 .. 7 off and
\* 8 .. 11 on, and VF is 1.
C18_Witness ==
    /\ Stepped /\ last.opcode = 53267 /\ last.at = AddrOf(7) /\ Alive
    /\ registers[0] = 4 /\ registers[1] = 0
    /\ video[0] /\ video[3] /\ ~video[4] /\ ~video[7] /\ video[8] /\ video[11]
    /\ registers[15] = 1

\* C19: a Dxyn that changes at least one cell leaves redraw true, whatever
\* it was; a Dxyn that changes no cell leaves redraw as it was.
C19_DrawSetsRedraw ==
    [][ (Step /\ OpFirst(AtOpcode) = 13) =>
          IF video' # video THEN redraw' = TRUE ELSE redraw' = redraw ]_vars

\* The third D013 of the overlap program at (0, 0) has drawn the row 0xFF on
\* the area the second had erased, and redraw is true.
C19_Witness ==
    /\ Stepped /\ last.opcode = 53267 /\ last.at = AddrOf(5) /\ Alive
    /\ registers[0] = 0 /\ registers[1] = 0
    /\ \A c \in 0 .. 7 : video[c]
    /\ redraw

\* C20: a step leaves the delay timer as it was unless the opcode is Fx15,
\* which sets it to Vx, and the sound timer as it was unless the opcode is
\* Fx18, which sets it to Vx; no step counts a timer down.
C20_StepLeavesTimers ==
    [][ Step =>
          LET opcode == AtOpcode
              sets(id) == opcode >= 0 /\ opcode \div 4096 = 15 /\ opcode % 256 = id
              vx == registers[(opcode \div 256) % 16]
          IN  /\ delay_timer' = IF sets(21) THEN vx ELSE delay_timer
              /\ sound_timer' = IF sets(24) THEN vx ELSE sound_timer ]_vars

\* The timer program has set delay = 2 and sound = 1 and has gone round its
\* loop since, with no tick: both timers are where Fx15 / Fx18 put them.
C20_Witness ==
    /\ Stepped /\ last.opcode = JumpTo(AddrOf(4)) /\ last.at = AddrOf(4) /\ Alive
    /\ registers[0] = 2 /\ registers[1] = 1
    /\ delay_timer = 2 /\ sound_timer = 1

\* C21: Fx29 leaves I = 0x50 + 5 * (Vx mod 16), the start of the glyph of
\* the low nibble of Vx, for every byte in Vx.
C21_GlyphOfLowNibble ==
    [][ (Step /\ AtOpcode >= 0 /\ OpFirst(AtOpcode) = 15 /\ AtOpcode % 256 = 41) =>
          index' = 80 + 5 * (registers[OpX(AtOpcode)] % 16) ]_vars

IsStoreRegs(opcode) == opcode >= 0 /\ OpFirst(opcode) = 15 /\ opcode % 256 = 85
IsLoadRegs(opcode) == opcode >= 0 /\ OpFirst(opcode) = 15 /\ opcode % 256 = 101

\* C22: an Fx55 that completes copies V0 .. Vx to memory[I .. I + x] and
\* changes no other byte, no register and not I; an Fx65 that completes
\* copies memory[I .. I + x] to V0 .. Vx and changes no other register, no
\* byte of memory and not I.
C22_StoreAndLoadRegisters ==
    [][ (Step /\ panic' = NoPanic) =>
          LET x == OpX(AtOpcode)
          IN  /\ IsStoreRegs(AtOpcode) =>
                    /\ \A a \in 0 .. MEMORY_SIZE - 1 :
                          memory'[a] = IF a >= index /\ a <= index + x
                                       THEN registers[a - index] ELSE memory[a]
                    /\ registers' = registers
                    /\ index' = index
              /\ IsLoadRegs(AtOpcode) =>
                    /\ \A r \in 0 .. NUM_REGISTERS - 1 :
                          registers'[r] = IF r <= x THEN memory[index + r]
                                          ELSE registers[r]
                    /\ memory' = memory
                    /\ index' = index ]_vars

\* F165 has brought back the V0 = 0x11 and V1 = 0x22 that F155 stored at
\* 0x300; V2, overwritten in between, and the byte at 0x302 were left alone.
C22_Witness ==
    /\ Stepped /\ last.opcode = 61797 /\ last.at = AddrOf(8) /\ Alive
    /\ index = 768
    /\ registers[0] = 17 /\ registers[1] = 34 /\ registers[2] = 68
    /\ memory[768] = 17 /\ memory[769] = 34 /\ memory[770] = 0

NoKeyPressed == \A k \in 0 .. NUM_KEYS - 1 : ~keypad[k]

\* The machine is about to run the Fx0A at address a.
WaitingAt(a) == Alive /\ loaded /\ program_counter = a /\ IsWaitKey(AtOpcode)

\* The Fx0A at address a has just completed: the program counter is past it
\* and Vx holds a key that is pressed.
PassedAt(a) ==
    /\ Stepped /\ IsWaitKey(last.opcode) /\ last.at = a /\ Alive
    /\ program_counter = a + 2
    /\ registers[OpX(last.opcode)] \in 0 .. NUM_KEYS - 1
    /\ keypad[registers[OpX(last.opcode)]]

WaitAddrs == { AddrOf(0), AddrOf(1) }

\* C23: while the machine keeps being stepped, an Fx0A with a key pressed
\* is passed (PC past it, Vx a pressed key) unless the keys are all
\* released first; while no key is pressed the machine stays at the Fx0A
\* with its registers as they are.
C23_WaitKeyLiveness ==
    /\ \A a \in WaitAddrs :
          (WaitingAt(a) /\ ~NoKeyPressed) ~> (PassedAt(a) \/ NoKeyPressed)
    /\ [][ (IsWaitKey(AtOpcode) /\ NoKeyPressed) =>
              /\ program_counter' = program_counter
              /\ registers' = registers
              /\ panic' = NoPanic ]_vars

\* F30A has completed with key 15 alone pressed: V3 = 15 and the program
\* counter is past the instruction.
C23_Witness ==
    /\ PassedAt(AddrOf(0)) /\ last.opcode = 62218
    /\ registers[3] = 15
    /\ \A k \in 0 .. NUM_KEYS - 1 : keypad[k] <=> k = 15

\* C24: after a Dxyn with x and y other than F has completed, the same Dxyn
\* run again on the machine as it then is brings the framebuffer back to
\* what it was before the first.
C24_DrawTwiceRestores ==
    [][ (Step /\ OpFirst(AtOpcode) = 13 /\ OpX(AtOpcode) # 15 /\ OpY(AtOpcode) # 15
              /\ panic' = NoPanic) =>
          /\ Draw(Chip8', AtOpcode).panic = NoPanic
          /\ Draw(Chip8', AtOpcode).video = video ]_vars

\* The second of two D013 in a row at (60, 30), an anchor next to two
\* edges, has run: the framebuffer is blank as before the first, and VF is
\* 1 for the cells it turned off.
C24_Witness ==
    /\ Stepped /\ last.opcode = 53267 /\ last.at = AddrOf(4) /\ Alive
    /\ registers[0] = 60 /\ registers[1] = 30
    /\ registers[15] = 1
    /\ \A c \in 0 .. VIDEO_BUFFER_SIZE - 1 : ~video[c]

\* C25: redraw is true in every state from construction on, whatever the
\* machine and the host have done, and every draw of the host rebuilds its
\* frame buffer.
C25_RedrawNeverCleared ==
    /\ redraw = TRUE
    /\ last.op = "draw" => last.at = 1

\* The host has drawn, rebuilding its frame buffer, after the machine has
\* cleared the framebuffer with 00E0; redraw is still true.
C25_Witness ==
    /\ last.op = "draw" /\ last.at = 1 /\ Alive
    /\ redraw
    /\ memory[AddrOf(2)] = 0 /\ memory[AddrOf(2) + 1] = 224
    /\ program_counter = AddrOf(3)
    /\ \A c \in 0 .. VIDEO_BUFFER_SIZE - 1 : ~video[c]
=============================================================================
